---------------------------- MODULE Spec2Model ----------------------------
(***************************************************************************)
(* Model of src/steel/sections.py: the PositiveFloat data descriptor, and  *)
(* the LippedChannelSection and HSection calculators built on it.          *)
(*                                                                         *)
(* A Python value handed to a descriptor is a record [t, n, d, nan]: its   *)
(* type name t and, for the numeric types, the number n/d (nan set for the *)
(* float NaN).  A float held by a section or produced by a formula is a    *)
(* record [k, n, d]: k = "fin" with the exact value n/d in lowest terms,   *)
(* k = "nan" for NaN, and k = "ZeroDivisionError" when evaluating the      *)
(* expression raised (Python raises on float division by zero; the         *)
(* exception propagates through every enclosing expression).  Finite       *)
(* floats are modelled by exact rationals: binary rounding, overflow and   *)
(* underflow are outside the model.                                        *)
(***************************************************************************)
EXTENDS Integers, Sequences, FiniteSets, TLC

VARIABLES call, section, last

vars == <<call, section, last>>

(***************************************************************************)
(* Bounds of the model.                                                    *)
(***************************************************************************)
MaxDimL == 2
MaxDimH == 4

(***************************************************************************)
(* Float arithmetic.                                                       *)
(***************************************************************************)
Abs(x) == IF x < 0 THEN -x ELSE x

RECURSIVE GCD(_, _)
GCD(a, b) == IF b = 0 THEN a ELSE GCD(b, a % b)

Fin(n, d) ==
    LET g == GCD(Abs(n), Abs(d))
        s == IF d < 0 THEN -1 ELSE 1
    IN  [k |-> "fin", n |-> (s * n) \div g, d |-> (s * d) \div g]

NaN == [k |-> "nan", n |-> 0, d |-> 1]

Raised(e) == [k |-> e, n |-> 0, d |-> 1]

F(i) == Fin(i, 1)

IsFin(x) == x.k = "fin"
IsNaN(x) == x.k = "nan"
IsRaised(x) == x.k \notin {"fin", "nan"}

\* x (+) y, x (-) y, x (*) y on floats
FAdd(x, y) ==
    IF IsRaised(x) THEN x ELSE IF IsRaised(y) THEN y
    ELSE IF IsNaN(x) \/ IsNaN(y) THEN NaN
    ELSE Fin(x.n * y.d + y.n * x.d, x.d * y.d)

FSub(x, y) ==
    IF IsRaised(x) THEN x ELSE IF IsRaised(y) THEN y
    ELSE IF IsNaN(x) \/ IsNaN(y) THEN NaN
    ELSE Fin(x.n * y.d - y.n * x.d, x.d * y.d)

FMul(x, y) ==
    IF IsRaised(x) THEN x ELSE IF IsRaised(y) THEN y
    ELSE IF IsNaN(x) \/ IsNaN(y) THEN NaN
    ELSE Fin(x.n * y.n, x.d * y.d)

\* x / y: Python raises ZeroDivisionError on a zero divisor, NaN dividend or not
FDiv(x, y) ==
    IF IsRaised(x) THEN x ELSE IF IsRaised(y) THEN y
    ELSE IF IsFin(y) /\ y.n = 0 THEN Raised("ZeroDivisionError")
    ELSE IF IsNaN(x) \/ IsNaN(y) THEN NaN
    ELSE Fin(x.n * y.d, x.d * y.n)

\* x ** 2 and x ** 3
FSq(x) == FMul(x, x)
FCube(x) == FMul(FMul(x, x), x)

\* comparisons: every comparison with NaN is False
FLe(x, y) == IsFin(x) /\ IsFin(y) /\ x.n * y.d <= y.n * x.d
FLt(x, y) == IsFin(x) /\ IsFin(y) /\ x.n * y.d < y.n * x.d
FGt(x, y) == FLt(y, x)
FGe(x, y) == FLe(y, x)

(***************************************************************************)
(* Python values.                                                          *)
(***************************************************************************)
PyInt(i) == [t |-> "int", n |-> i, d |-> 1, nan |-> FALSE]
PyFloat(n, d) == [t |-> "float", n |-> n, d |-> d, nan |-> FALSE]
PyNaN == [t |-> "float", n |-> 0, d |-> 1, nan |-> TRUE]
PyBool(b) == [t |-> "bool", n |-> IF b THEN 1 ELSE 0, d |-> 1, nan |-> FALSE]
PyStr == [t |-> "str", n |-> 0, d |-> 1, nan |-> FALSE]
PyNone == [t |-> "NoneType", n |-> 0, d |-> 1, nan |-> FALSE]

\* isinstance(value, (int, float)); bool is a subclass of int
isinstance_int_float(value) == value.t \in {"int", "float", "bool"}

\* float(value) of a numeric value
float(value) == IF value.nan THEN NaN ELSE Fin(value.n, value.d)

\* value <= 0 of a numeric value
le_zero(value) == FLe(float(value), F(0))


(***************************************************************************)
(* The classes: their dimension descriptors in the order __init__ assigns  *)
(* them, and the instance attribute each descriptor stores to.             *)
(***************************************************************************)
Classes == {"LippedChannelSection", "HSection"}

Params(cls) ==
    IF cls = "LippedChannelSection" THEN <<"h", "b", "d", "t_w", "t_f", "t_l">>
    ELSE <<"h", "b", "t_w", "t_f">>

ParamSet(cls) == {Params(cls)[i] : i \in 1..Len(Params(cls))}

\* PositiveFloat(name, doc).name, the label the descriptor was created with
\* (the source's labels are Japanese; they are spelled in English here)
descriptor_name(cls, attr) ==
    IF cls = "LippedChannelSection"
    THEN CASE attr = "h" -> "web_height"
           [] attr = "b" -> "flange_width"
           [] attr = "d" -> "lip_length"
           [] attr = "t_w" -> "web_thickness"
           [] attr = "t_f" -> "flange_thickness"
           [] attr = "t_l" -> "lip_thickness"
    ELSE CASE attr = "h" -> "section_depth"
           [] attr = "b" -> "flange_width"
           [] attr = "t_w" -> "web_thickness"
           [] attr = "t_f" -> "flange_thickness"

\* PositiveFloat.__init__: self.private_name = f"_{name}"
private_name(cls, attr) == "_" \o descriptor_name(cls, attr)

PrivateNames(cls) == {private_name(cls, a) : a \in ParamSet(cls)}

\* object.__new__: an instance whose __dict__ holds none of the attributes;
\* reading one raises AttributeError
NewObject(cls) ==
    [cls |-> cls, dict |-> [x \in PrivateNames(cls) |-> Raised("AttributeError")]]

NoSection == [cls |-> "none", dict |-> <<>>]

(***************************************************************************)
(* PositiveFloat                                                           *)
(***************************************************************************)
NoError == [type |-> "none", msg |-> "none"]
TypeError_not_numeric == [type |-> "TypeError", msg |-> "must be a number"]
ValueError_not_positive == [type |-> "ValueError", msg |-> "must be positive"]
ValueError_unsupported_grade == [type |-> "ValueError", msg |-> "unsupported steel grade"]
ZeroDivisionError == [type |-> "ZeroDivisionError", msg |-> "float division by zero"]

\* PositiveFloat.__get__(obj): getattr(obj, self.private_name)
PositiveFloat_get(obj, attr) == obj.dict[private_name(obj.cls, attr)]

\* PositiveFloat.__set__ rejecting only value < 0
Mut_PositiveFloat_check(value) ==
    IF ~isinstance_int_float(value) THEN TypeError_not_numeric
    ELSE IF FLt(float(value), F(0)) THEN ValueError_not_positive
    ELSE NoError

\* PositiveFloat.__set__(obj, value): the error raised, or NoError
PositiveFloat_check(value) ==
    IF ~isinstance_int_float(value) THEN TypeError_not_numeric
    ELSE IF le_zero(value) THEN ValueError_not_positive
    ELSE NoError

\* PositiveFloat.__set__(obj, value): [err, obj], obj unchanged when it raises
PositiveFloat_set(obj, attr, value) ==
    LET e == PositiveFloat_check(value)
    IN  IF e # NoError THEN [err |-> e, obj |-> obj]
        ELSE [err |-> NoError,
              obj |-> [obj EXCEPT !.dict[private_name(obj.cls, attr)] = float(value)]]

\* __init__ of both classes: self.<param> = <arg>, one parameter after the
\* other from position i on; the first assignment that raises ends it
RECURSIVE init_from(_, _, _)
init_from(obj, args, i) ==
    IF i > Len(Params(obj.cls)) THEN [err |-> NoError, obj |-> obj]
    ELSE LET r == PositiveFloat_set(obj, Params(obj.cls)[i], args[i])
         IN  IF r.err # NoError THEN r ELSE init_from(r.obj, args, i + 1)

\* cls(*args): the new instance, or the error and no instance
construct(cls, args) == init_from(NewObject(cls), args, 1)


(***************************************************************************)
(* LippedChannelSection: every property is written as the source computes  *)
(* it, operand by operand.  self.<dim> goes through PositiveFloat.__get__. *)
(***************************************************************************)
Dim(self, attr) == PositiveFloat_get(self, attr)

\* area forgetting the flange-lip overlap
Mut_LippedChannelSection_area(self) ==
    LET web_area == FMul(Dim(self, "h"), Dim(self, "t_w"))
        flange_area == FMul(FMul(F(2), Dim(self, "b")), Dim(self, "t_f"))
        lip_area == FMul(FMul(F(2), Dim(self, "d")), Dim(self, "t_l"))
        web_flange_overlap == FMul(FMul(F(2), Dim(self, "t_w")), Dim(self, "t_f"))
    IN  FSub(FAdd(FAdd(web_area, flange_area), lip_area), web_flange_overlap)

LippedChannelSection_area(self) ==
    LET web_area == FMul(Dim(self, "h"), Dim(self, "t_w"))
        flange_area == FMul(FMul(F(2), Dim(self, "b")), Dim(self, "t_f"))
        lip_area == FMul(FMul(F(2), Dim(self, "d")), Dim(self, "t_l"))
        web_flange_overlap == FMul(FMul(F(2), Dim(self, "t_w")), Dim(self, "t_f"))
        flange_lip_overlap == FMul(FMul(F(2), Dim(self, "t_f")), Dim(self, "t_l"))
    IN  FSub(FSub(FAdd(FAdd(web_area, flange_area), lip_area),
                  web_flange_overlap),
             flange_lip_overlap)

LippedChannelSection_centroid(self) ==
    LET b == Dim(self, "b")
        d == Dim(self, "d")
        x_c == FDiv(FAdd(FDiv(FMul(FMul(FMul(F(2), b), Dim(self, "t_f")), b), F(2)),
                         FMul(FMul(FMul(F(2), d), Dim(self, "t_l")),
                              FAdd(b, FDiv(d, F(2))))),
                    LippedChannelSection_area(self))
        y_c == FDiv(Dim(self, "h"), F(2))
    IN  <<x_c, y_c>>

LippedChannelSection_moment_of_inertia_strong_web(self) ==
    FDiv(FMul(Dim(self, "t_w"), FCube(Dim(self, "h"))), F(12))

LippedChannelSection_moment_of_inertia_strong_flange(self) ==
    LET b == Dim(self, "b")
        t_f == Dim(self, "t_f")
    IN  FMul(F(2), FAdd(FDiv(FMul(t_f, FCube(b)), F(12)),
                        FMul(FMul(b, t_f), FSq(FDiv(b, F(2))))))

LippedChannelSection_moment_of_inertia_strong_lip(self) ==
    LET b == Dim(self, "b")
        d == Dim(self, "d")
        t_l == Dim(self, "t_l")
    IN  FMul(F(2), FAdd(FDiv(FMul(t_l, FCube(d)), F(12)),
                        FMul(FMul(d, t_l), FSq(FAdd(b, FDiv(d, F(2)))))))

LippedChannelSection_moment_of_inertia_strong(self) ==
    FAdd(FAdd(LippedChannelSection_moment_of_inertia_strong_web(self),
              LippedChannelSection_moment_of_inertia_strong_flange(self)),
         LippedChannelSection_moment_of_inertia_strong_lip(self))

LippedChannelSection_moment_of_inertia_weak_web(self) ==
    FDiv(FMul(Dim(self, "h"), FCube(Dim(self, "t_w"))), F(12))

LippedChannelSection_moment_of_inertia_weak_flange(self) ==
    FMul(FMul(FMul(F(2), Dim(self, "b")), Dim(self, "t_f")),
         FSq(FDiv(Dim(self, "h"), F(2))))

LippedChannelSection_moment_of_inertia_weak_lip(self) ==
    FMul(FMul(FMul(F(2), Dim(self, "d")), Dim(self, "t_l")),
         FSq(FDiv(Dim(self, "h"), F(2))))

\* the weak-axis total taking the lip contribution of the strong axis
Mut_LippedChannelSection_moment_of_inertia_weak(self) ==
    FAdd(FAdd(LippedChannelSection_moment_of_inertia_weak_web(self),
              LippedChannelSection_moment_of_inertia_weak_flange(self)),
         LippedChannelSection_moment_of_inertia_strong_lip(self))

LippedChannelSection_moment_of_inertia_weak(self) ==
    FAdd(FAdd(LippedChannelSection_moment_of_inertia_weak_web(self),
              LippedChannelSection_moment_of_inertia_weak_flange(self)),
         LippedChannelSection_moment_of_inertia_weak_lip(self))

LippedChannelSection_section_modulus_strong(self) ==
    FDiv(LippedChannelSection_moment_of_inertia_strong(self),
         FDiv(Dim(self, "h"), F(2)))

LippedChannelSection_section_modulus_weak(self) ==
    LET x_c == LippedChannelSection_centroid(self)[1]
    IN  FDiv(LippedChannelSection_moment_of_inertia_weak(self), x_c)

LippedChannelSection_torsion_constant(self) ==
    FDiv(FAdd(FAdd(FMul(Dim(self, "h"), FCube(Dim(self, "t_w"))),
                   FMul(FMul(F(2), Dim(self, "b")), FCube(Dim(self, "t_f")))),
              FMul(FMul(F(2), Dim(self, "d")), FCube(Dim(self, "t_l")))),
         F(3))

LippedChannelSection_warping_constant(self) ==
    FMul(FDiv(FMul(LippedChannelSection_moment_of_inertia_weak(self),
                   FSq(Dim(self, "h"))),
              F(4)),
         FSub(F(1), FDiv(FMul(F(3), Dim(self, "b")),
                         FMul(F(2), Dim(self, "h")))))

LippedChannelSection_shear_center(self) ==
    LET h == Dim(self, "h")
        b == Dim(self, "b")
        t_f == Dim(self, "t_f")
        k == FAdd(F(1), FMul(FSq(FDiv(Dim(self, "d"), b)),
                             FDiv(Dim(self, "t_l"), t_f)))
        x_s == FDiv(FMul(b, FAdd(FMul(FSq(h), Dim(self, "t_w")),
                                 FMul(FMul(FMul(FMul(F(4), b), t_f), h), k))),
                    FMul(F(4), LippedChannelSection_moment_of_inertia_weak(self)))
        y_s == FDiv(h, F(2))
    IN  <<x_s, y_s>>

LippedChannelSection_web_width_thickness_ratio(self) ==
    FDiv(Dim(self, "h"), Dim(self, "t_w"))

LippedChannelSection_flange_width_thickness_ratio(self) ==
    FDiv(Dim(self, "b"), Dim(self, "t_f"))

LippedChannelSection_lip_width_thickness_ratio(self) ==
    FDiv(Dim(self, "d"), Dim(self, "t_l"))


\* SteelSectionProperties(SectionProperties): the fields of the record
SteelSectionProperties(area, moment_of_inertia_x, moment_of_inertia_y, torsional_constant, plastic_moment_x, plastic_moment_y, warping_constant, shear_center_x, shear_center_y) ==
    [area |-> area,
     moment_of_inertia_x |-> moment_of_inertia_x,
     moment_of_inertia_y |-> moment_of_inertia_y,
     torsional_constant |-> torsional_constant,
     plastic_moment_x |-> plastic_moment_x,
     plastic_moment_y |-> plastic_moment_y,
     warping_constant |-> warping_constant,
     shear_center_x |-> shear_center_x,
     shear_center_y |-> shear_center_y]

\* the float literal 1.5
OnePointFive == Fin(3, 2)

LippedChannelSection_calculate_properties(self) ==
    SteelSectionProperties(
        LippedChannelSection_area(self),
        LippedChannelSection_moment_of_inertia_strong(self),
        LippedChannelSection_moment_of_inertia_weak(self),
        LippedChannelSection_torsion_constant(self),
        FMul(LippedChannelSection_section_modulus_strong(self), OnePointFive),
        FMul(LippedChannelSection_section_modulus_weak(self), OnePointFive),
        LippedChannelSection_warping_constant(self),
        LippedChannelSection_shear_center(self)[1],
        LippedChannelSection_shear_center(self)[2])

(***************************************************************************)
(* HSection                                                                *)
(***************************************************************************)
HSection_web_area(self) ==
    FMul(FSub(Dim(self, "h"), FMul(F(2), Dim(self, "t_f"))), Dim(self, "t_w"))

HSection_flange_area(self) ==
    FMul(FMul(F(2), Dim(self, "b")), Dim(self, "t_f"))

HSection_area(self) == FAdd(HSection_web_area(self), HSection_flange_area(self))

\* centroid with its coordinates swapped
Mut_HSection_centroid(self) ==
    <<FDiv(Dim(self, "h"), F(2)), FDiv(Dim(self, "b"), F(2))>>

HSection_centroid(self) ==
    <<FDiv(Dim(self, "b"), F(2)), FDiv(Dim(self, "h"), F(2))>>

HSection_moment_of_inertia_strong(self) ==
    LET h == Dim(self, "h")
        b == Dim(self, "b")
        t_f == Dim(self, "t_f")
        web_i == FDiv(FMul(Dim(self, "t_w"), FCube(FSub(h, FMul(F(2), t_f)))), F(12))
        d == FDiv(FSub(h, t_f), F(2))
        flange_i == FMul(F(2), FAdd(FDiv(FMul(b, FCube(t_f)), F(12)),
                                    FMul(FMul(b, t_f), FSq(d))))
    IN  FAdd(web_i, flange_i)

HSection_moment_of_inertia_weak(self) ==
    LET web_i == FDiv(FMul(FSub(Dim(self, "h"), FMul(F(2), Dim(self, "t_f"))),
                           FCube(Dim(self, "t_w"))),
                      F(12))
        flange_i == FMul(F(2), FDiv(FMul(Dim(self, "t_f"), FCube(Dim(self, "b"))),
                                    F(12)))
    IN  FAdd(web_i, flange_i)

HSection_section_modulus_strong(self) ==
    FDiv(HSection_moment_of_inertia_strong(self), FDiv(Dim(self, "h"), F(2)))

HSection_section_modulus_weak(self) ==
    FDiv(HSection_moment_of_inertia_weak(self), FDiv(Dim(self, "b"), F(2)))

HSection_torsion_constant(self) ==
    FDiv(FAdd(FMul(FSub(Dim(self, "h"), FMul(F(2), Dim(self, "t_f"))),
                   FCube(Dim(self, "t_w"))),
              FMul(FMul(F(2), Dim(self, "b")), FCube(Dim(self, "t_f")))),
         F(3))

HSection_warping_constant(self) ==
    LET h_f == FSub(Dim(self, "h"), Dim(self, "t_f"))
    IN  FDiv(FMul(FMul(Dim(self, "t_f"), FCube(Dim(self, "b"))), FSq(h_f)), F(24))

HSection_calculate_properties(self) ==
    SteelSectionProperties(
        HSection_area(self),
        HSection_moment_of_inertia_strong(self),
        HSection_moment_of_inertia_weak(self),
        HSection_torsion_constant(self),
        FMul(HSection_section_modulus_strong(self), OnePointFive),
        FMul(HSection_section_modulus_weak(self), OnePointFive),
        HSection_warping_constant(self),
        FDiv(Dim(self, "b"), F(2)),
        FDiv(Dim(self, "h"), F(2)))

HSection_web_width_thickness_ratio(self) ==
    FDiv(FSub(Dim(self, "h"), FMul(F(2), Dim(self, "t_f"))), Dim(self, "t_w"))

HSection_flange_width_thickness_ratio(self) ==
    FDiv(FDiv(Dim(self, "b"), F(2)), Dim(self, "t_f"))


\* round(x, 2) of a float: to the nearest multiple of 0.01, a tie going to the
\* even one (the ties that occur here are binary fractions, which a float
\* holds exactly)
round2(x) ==
    IF ~IsFin(x) THEN x
    ELSE LET num == 100 * x.n
             fl == num \div x.d
             rem == num - fl * x.d
             r == IF 2 * rem < x.d THEN fl
                  ELSE IF 2 * rem > x.d THEN fl + 1
                  ELSE IF fl % 2 = 0 THEN fl ELSE fl + 1
         IN  Fin(r, 100)

\* the limits table of check_width_thickness_ratios
SupportedGrades == {"SN400", "SN490", "SM490", "SM520"}

limits(steel_grade) ==
    CASE steel_grade = "SN400" -> [web |-> 72, flange |-> 12]
      [] steel_grade = "SN490" -> [web |-> 67, flange |-> 11]
      [] steel_grade = "SM490" -> [web |-> 67, flange |-> 11]
      [] steel_grade = "SM520" -> [web |-> 60, flange |-> 10]

\* "OK" if ratio < limit else "NG"
Mut_status(ratio, limit) == IF FLt(ratio, F(limit)) THEN "OK" ELSE "NG"

\* "OK" if ratio <= limit else "NG"
status(ratio, limit) == IF FLe(ratio, F(limit)) THEN "OK" ELSE "NG"

\* HSection.check_width_thickness_ratios(steel_grade): [err, val]
HSection_check_width_thickness_ratios(self, steel_grade) ==
    IF steel_grade \notin SupportedGrades
    THEN [err |-> ValueError_unsupported_grade, val |-> <<>>]
    ELSE LET web_ratio == HSection_web_width_thickness_ratio(self)
             flange_ratio == HSection_flange_width_thickness_ratio(self)
         IN  [err |-> NoError,
              val |-> [web |-> [ratio |-> round2(web_ratio),
                                limit |-> limits(steel_grade).web,
                                status |-> status(web_ratio, limits(steel_grade).web)],
                       flange |-> [ratio |-> round2(flange_ratio),
                                   limit |-> limits(steel_grade).flange,
                                   status |-> status(flange_ratio,
                                                     limits(steel_grade).flange)]]]


(***************************************************************************)
(* Attribute access on an instance: the dimension descriptors and the      *)
(* properties of the instance's class.                                     *)
(***************************************************************************)
TupleProperties == {"centroid", "shear_center"}

Properties(cls) ==
    IF cls = "LippedChannelSection"
    THEN {"area", "centroid",
          "moment_of_inertia_strong_web", "moment_of_inertia_strong_flange",
          "moment_of_inertia_strong_lip", "moment_of_inertia_strong",
          "moment_of_inertia_weak_web", "moment_of_inertia_weak_flange",
          "moment_of_inertia_weak_lip", "moment_of_inertia_weak",
          "section_modulus_strong", "section_modulus_weak",
          "torsion_constant", "warping_constant", "shear_center",
          "web_width_thickness_ratio", "flange_width_thickness_ratio",
          "lip_width_thickness_ratio"}
    ELSE {"web_area", "flange_area", "area", "centroid",
          "moment_of_inertia_strong", "moment_of_inertia_weak",
          "section_modulus_strong", "section_modulus_weak",
          "torsion_constant", "warping_constant",
          "web_width_thickness_ratio", "flange_width_thickness_ratio"}

LippedChannelSection_getattr(self, name) ==
    CASE name = "area" -> LippedChannelSection_area(self)
      [] name = "centroid" -> LippedChannelSection_centroid(self)
      [] name = "moment_of_inertia_strong_web" ->
            LippedChannelSection_moment_of_inertia_strong_web(self)
      [] name = "moment_of_inertia_strong_flange" ->
            LippedChannelSection_moment_of_inertia_strong_flange(self)
      [] name = "moment_of_inertia_strong_lip" ->
            LippedChannelSection_moment_of_inertia_strong_lip(self)
      [] name = "moment_of_inertia_strong" ->
            LippedChannelSection_moment_of_inertia_strong(self)
      [] name = "moment_of_inertia_weak_web" ->
            LippedChannelSection_moment_of_inertia_weak_web(self)
      [] name = "moment_of_inertia_weak_flange" ->
            LippedChannelSection_moment_of_inertia_weak_flange(self)
      [] name = "moment_of_inertia_weak_lip" ->
            LippedChannelSection_moment_of_inertia_weak_lip(self)
      [] name = "moment_of_inertia_weak" ->
            LippedChannelSection_moment_of_inertia_weak(self)
      [] name = "section_modulus_strong" ->
            LippedChannelSection_section_modulus_strong(self)
      [] name = "section_modulus_weak" ->
            LippedChannelSection_section_modulus_weak(self)
      [] name = "torsion_constant" -> LippedChannelSection_torsion_constant(self)
      [] name = "warping_constant" -> LippedChannelSection_warping_constant(self)
      [] name = "shear_center" -> LippedChannelSection_shear_center(self)
      [] name = "web_width_thickness_ratio" ->
            LippedChannelSection_web_width_thickness_ratio(self)
      [] name = "flange_width_thickness_ratio" ->
            LippedChannelSection_flange_width_thickness_ratio(self)
      [] name = "lip_width_thickness_ratio" ->
            LippedChannelSection_lip_width_thickness_ratio(self)
      [] OTHER -> Dim(self, name)

HSection_getattr(self, name) ==
    CASE name = "web_area" -> HSection_web_area(self)
      [] name = "flange_area" -> HSection_flange_area(self)
      [] name = "area" -> HSection_area(self)
      [] name = "centroid" -> HSection_centroid(self)
      [] name = "moment_of_inertia_strong" -> HSection_moment_of_inertia_strong(self)
      [] name = "moment_of_inertia_weak" -> HSection_moment_of_inertia_weak(self)
      [] name = "section_modulus_strong" -> HSection_section_modulus_strong(self)
      [] name = "section_modulus_weak" -> HSection_section_modulus_weak(self)
      [] name = "torsion_constant" -> HSection_torsion_constant(self)
      [] name = "warping_constant" -> HSection_warping_constant(self)
      [] name = "web_width_thickness_ratio" ->
            HSection_web_width_thickness_ratio(self)
      [] name = "flange_width_thickness_ratio" ->
            HSection_flange_width_thickness_ratio(self)
      [] OTHER -> Dim(self, name)

getattr(self, name) ==
    IF self.cls = "LippedChannelSection" THEN LippedChannelSection_getattr(self, name)
    ELSE HSection_getattr(self, name)

calculate_properties(self) ==
    IF self.cls = "LippedChannelSection"
    THEN LippedChannelSection_calculate_properties(self)
    ELSE HSection_calculate_properties(self)

\* the exception an evaluation ended with, as an error record
Exception(x) ==
    [type |-> x.k,
     msg |-> IF x.k = "ZeroDivisionError" THEN ZeroDivisionError.msg ELSE "none"]

\* the outcome [err, val] of evaluating a float, a pair of floats or a record of
\* floats given as a function v over the index set idx: the exception of a
\* raising component (on a constructed instance they all are the same
\* ZeroDivisionError), or the value
Outcome(v, idx) ==
    IF \E i \in idx : IsRaised(v[i])
    THEN [err |-> Exception(v[CHOOSE i \in idx : IsRaised(v[i])]), val |-> <<>>]
    ELSE [err |-> NoError, val |-> v]


\* obj.<name> for a property or a dimension: [err, val]
read(self, name) ==
    LET v == getattr(self, name)
    IN  IF name \in TupleProperties THEN Outcome(v, {1, 2})
        ELSE IF IsRaised(v) THEN [err |-> Exception(v), val |-> <<>>]
        ELSE [err |-> NoError, val |-> v]

\* the attributes of self that calculate_properties reads to build the record,
\* in the order the keyword arguments are evaluated
LippedChannelSection_calculate_properties_reads ==
    <<"area", "moment_of_inertia_strong", "moment_of_inertia_weak",
      "torsion_constant", "section_modulus_strong", "section_modulus_weak",
      "warping_constant", "shear_center", "shear_center">>

HSection_calculate_properties_reads ==
    <<"area", "moment_of_inertia_strong", "moment_of_inertia_weak",
      "torsion_constant", "section_modulus_strong", "section_modulus_weak",
      "warping_constant", "b", "h">>

calculate_properties_reads(self) ==
    IF self.cls = "LippedChannelSection"
    THEN LippedChannelSection_calculate_properties_reads
    ELSE HSection_calculate_properties_reads

\* the reads of names made on self, one after the other, until one raises
RECURSIVE reads_until_raise(_, _)
reads_until_raise(self, names) ==
    IF names = <<>> THEN <<>>
    ELSE IF read(self, Head(names)).err # NoError THEN <<Head(names)>>
    ELSE <<Head(names)>> \o reads_until_raise(self, Tail(names))


(***************************************************************************)
(* Inputs.                                                                 *)
(***************************************************************************)
\* arguments of the constructors: numbers <= 0, a string, and the positive
\* integers up to max
CommonInputs(max) ==
    {PyInt(-1), PyFloat(0, 1), PyStr} \cup {PyInt(i) : i \in 1..max}

\* for HSection also NaN, and depths and widths that put the width-thickness
\* ratios on both sides of the limits
Inputs(cls, attr) ==
    IF cls = "LippedChannelSection" THEN CommonInputs(MaxDimL)
    ELSE CommonInputs(MaxDimH) \cup {PyNaN} \cup
         (IF attr = "h" THEN {PyInt(62), PyInt(75)}
          ELSE IF attr = "b" THEN {PyInt(20), PyInt(26)}
          ELSE {})

\* values assigned to a dimension attribute of an existing section
AssignInputs(cls, attr) ==
    Inputs(cls, attr) \cup {PyNaN, PyBool(TRUE), PyBool(FALSE), PyNone}

ArgSeqs(cls) ==
    LET n == Len(Params(cls))
        all == UNION {Inputs(cls, a) : a \in ParamSet(cls)}
    IN  {args \in [1..n -> all] : \A i \in 1..n : args[i] \in Inputs(cls, Params(cls)[i])}

Grades == SupportedGrades \cup {"INVALID", "sn400", ""}

(***************************************************************************)
(* The state machine: a caller constructs one section from the arguments   *)
(* of `call`, then assigns to its dimension attributes, reads its          *)
(* properties and calls its methods in any order, one operation at a time: *)
(* `last` is the outcome of the operation that just returned or raised,    *)
(* until the caller drops it and goes on; for calculate_properties it      *)
(* holds in `reads` the attributes the call read on the section, in order. *)
(***************************************************************************)
NoCall == [cls |-> "none", args |-> <<>>]

Idle == [op |-> "none", arg |-> <<>>, err |-> NoError, val |-> <<>>, reads |-> <<>>]

Init ==
    /\ call \in UNION {{[cls |-> c, args |-> a] : a \in ArgSeqs(c)} : c \in Classes}
    /\ section = NoSection
    /\ last = Idle

\* section = cls(*args)
Construct ==
    /\ last = Idle
    /\ call # NoCall
    /\ LET r == construct(call.cls, call.args)
       IN  /\ section' = IF r.err = NoError THEN r.obj ELSE NoSection
           /\ last' = [op |-> "__init__", arg |-> <<call.cls, call.args>>,
                       err |-> r.err, val |-> <<>>, reads |-> <<>>]
    /\ call' = NoCall

\* section.<attr> = value
Assign(attr, value) ==
    /\ last = Idle
    /\ section # NoSection
    /\ LET r == PositiveFloat_set(section, attr, value)
       IN  /\ section' = r.obj
           /\ last' = [op |-> "__set__", arg |-> <<attr>>, err |-> r.err, val |-> <<>>,
                       reads |-> <<>>]
    /\ UNCHANGED call

\* section.<name>
Read(name) ==
    /\ last = Idle
    /\ section # NoSection
    /\ LET r == read(section, name)
       IN  last' = [op |-> name, arg |-> <<>>, err |-> r.err, val |-> r.val,
                    reads |-> <<>>]
    /\ UNCHANGED <<call, section>>

\* section.calculate_properties()
CalculateProperties ==
    /\ last = Idle
    /\ section # NoSection
    /\ LET v == calculate_properties(section)
           r == Outcome(v, DOMAIN v)
       IN  last' = [op |-> "calculate_properties", arg |-> <<>>,
                    err |-> r.err, val |-> r.val,
                    reads |-> reads_until_raise(section, calculate_properties_reads(section))]
    /\ UNCHANGED <<call, section>>

\* section.check_width_thickness_ratios(steel_grade)
CheckWidthThicknessRatios(steel_grade) ==
    /\ last = Idle
    /\ section.cls = "HSection"
    /\ LET r == HSection_check_width_thickness_ratios(section, steel_grade)
       IN  last' = [op |-> "check_width_thickness_ratios", arg |-> <<steel_grade>>,
                    err |-> r.err, val |-> r.val, reads |-> <<>>]
    /\ UNCHANGED <<call, section>>

\* the caller is done with the outcome of its last operation
Discard ==
    /\ last # Idle
    /\ last' = Idle
    /\ UNCHANGED <<call, section>>

Next ==
    \/ Construct
    \/ Discard
    \/ \E attr \in ParamSet(section.cls) : \E value \in AssignInputs(section.cls, attr) :
          Assign(attr, value)
    \/ \E name \in ParamSet(section.cls) \cup Properties(section.cls) : Read(name)
    \/ CalculateProperties
    \/ \E steel_grade \in Grades : CheckWidthThicknessRatios(steel_grade)

Spec == Init /\ [][Next]_vars


(***************************************************************************)
(* Vocabulary of the properties.                                           *)
(***************************************************************************)
\* the section is an instance of cls
IsA(cls) == section.cls = cls

\* every dimension of the section is a number > 0
AllPositive ==
    /\ section # NoSection
    /\ \A a \in ParamSet(section.cls) : FGt(Dim(section, a), F(0))

\* the last operation was op and it returned
Returned(op) == last.op = op /\ last.err = NoError

\* an argument that is not a number; an argument that is a number <= 0
NotANumber(value) == value.t \in {"str", "NoneType"}
NonPositive(value) ==
    value.t \in {"int", "float", "bool"} /\ ~value.nan /\ value.n <= 0

Invalid(value) == NotANumber(value) \/ NonPositive(value)

\* the error kinds of the specification, as the exceptions the code raises
OutOfRange == ValueError_not_positive
InvalidDimension == TypeError_not_numeric
UnsupportedGrade == ValueError_unsupported_grade

(***************************************************************************)
(* C1: constructing a LippedChannelSection or an HSection fails whenever   *)
(* an argument is invalid, with OutOfRange for a number <= 0 and           *)
(* InvalidDimension for a value that is not a number (the first invalid    *)
(* argument in parameter order decides), the two kinds are distinct, and   *)
(* no section is returned; with no invalid argument it returns a section.  *)
(***************************************************************************)
Thm_C1 ==
    last.op = "__init__" =>
        LET args == last.arg[2]
            bad == {i \in DOMAIN args : Invalid(args[i])}
        IN  /\ OutOfRange # InvalidDimension
            /\ bad = {} => last.err = NoError /\ IsA(last.arg[1])
            /\ bad # {} =>
                 LET first == CHOOSE i \in bad : \A j \in bad : i <= j
                 IN  /\ section = NoSection
                     /\ NonPositive(args[first]) => last.err = OutOfRange
                     /\ NotANumber(args[first]) => last.err = InvalidDimension
                     /\ (\A j \in bad : NonPositive(args[j])) => last.err = OutOfRange
                     /\ (\A j \in bad : NotANumber(args[j])) => last.err = InvalidDimension

\* a construction with a negative and a non-numeric argument was rejected
Wit_C1 ==
    /\ last.op = "__init__"
    /\ last.err = InvalidDimension
    /\ section = NoSection
    /\ \E i \in DOMAIN last.arg[2] : NonPositive(last.arg[2][i])

(***************************************************************************)
(* C2: every dimension field of a section that exists is strictly greater  *)
(* than 0, after any construction and any assignments.                     *)
(***************************************************************************)
C2_DimensionsPositive == section # NoSection => AllPositive

(***************************************************************************)
(* C3: no operation on a constructed section changes any of its dimension  *)
(* fields.                                                                 *)
(***************************************************************************)
C3_NeverMutated == [][section # NoSection => section' = section]_vars

(***************************************************************************)
(* C4: for a section whose dimensions are all strictly positive, the area  *)
(* property and the area field of calculate_properties are > 0.            *)
(***************************************************************************)
C4_AreaPositive ==
    AllPositive =>
        /\ last.op = "area" => last.err = NoError /\ FGt(last.val, F(0))
        /\ Returned("calculate_properties") => FGt(last.val.area, F(0))


\* a dimension of the section, and the value a read of it returns
D(attr) == Dim(section, attr)
ValueOf(name) == read(section, name).val

Thm_C6 ==
    (IsA("LippedChannelSection") /\ AllPositive) =>
        /\ last.op = "moment_of_inertia_strong" =>
             /\ last.err = NoError
             /\ last.val = FAdd(FAdd(ValueOf("moment_of_inertia_strong_web"),
                                     ValueOf("moment_of_inertia_strong_flange")),
                                ValueOf("moment_of_inertia_strong_lip"))
        /\ last.op = "moment_of_inertia_weak" =>
             /\ last.err = NoError
             /\ last.val = FAdd(FAdd(ValueOf("moment_of_inertia_weak_web"),
                                     ValueOf("moment_of_inertia_weak_flange")),
                                ValueOf("moment_of_inertia_weak_lip"))
        /\ last.op \in {"moment_of_inertia_strong_web", "moment_of_inertia_strong_flange",
                        "moment_of_inertia_strong_lip", "moment_of_inertia_weak_web",
                        "moment_of_inertia_weak_flange", "moment_of_inertia_weak_lip"} =>
             last.err = NoError /\ FGt(last.val, F(0))

\* moment_of_inertia_weak of a lipped channel with positive, not all equal,
\* dimensions was read
Wit_C6 ==
    /\ Returned("moment_of_inertia_weak") /\ IsA("LippedChannelSection") /\ AllPositive
    /\ D("h") # D("b") /\ D("d") # D("t_l")

(***************************************************************************)
(* C7: for an H-section with positive dimensions, centroid is (b/2, h/2)   *)
(* and the shear centre calculate_properties reports equals the centroid.  *)
(***************************************************************************)
Thm_C7 ==
    (IsA("HSection") /\ AllPositive) =>
        /\ last.op = "centroid" =>
             /\ last.err = NoError
             /\ last.val = <<FDiv(D("b"), F(2)), FDiv(D("h"), F(2))>>
        /\ last.op = "calculate_properties" =>
             /\ last.err = NoError
             /\ <<last.val.shear_center_x, last.val.shear_center_y>> = ValueOf("centroid")

\* calculate_properties returned for an H-section with b # h
Wit_C7 ==
    /\ Returned("calculate_properties") /\ IsA("HSection") /\ AllPositive
    /\ D("b") # D("h")

(***************************************************************************)
(* C8: for an H-section with positive dimensions, moment_of_inertia_strong *)
(* is >= moment_of_inertia_weak, and both are > 0.                         *)
(***************************************************************************)
C8_StrongAtLeastWeak ==
    (IsA("HSection") /\ AllPositive) =>
        /\ last.op = "moment_of_inertia_strong" =>
             /\ last.err = NoError
             /\ FGt(last.val, F(0))
             /\ FGe(last.val, ValueOf("moment_of_inertia_weak"))
        /\ last.op = "moment_of_inertia_weak" =>
             last.err = NoError /\ FGt(last.val, F(0))


\* the limits the claim lists, as <<web, flange>>
ClaimedLimits(grade) ==
    CASE grade = "SN400" -> <<72, 12>>
      [] grade = "SN490" -> <<67, 11>>
      [] grade = "SM490" -> <<67, 11>>
      [] grade = "SM520" -> <<60, 10>>

ClaimedGrades == {"SN400", "SN490", "SM490", "SM520"}

\* "OK" when the ratio is <= the limit and "NG" otherwise
ClaimedStatus(ratio, limit) ==
    IF ratio.n <= limit * ratio.d THEN "OK" ELSE "NG"

\* an entry of the record: exactly ratio, limit and status, with these values
IsEntry(entry, ratio, limit, stat) ==
    /\ DOMAIN entry = {"ratio", "limit", "status"}
    /\ entry.ratio = ratio
    /\ entry.limit = limit
    /\ entry.status = stat

WebRatio == FDiv(FSub(D("h"), FMul(F(2), D("t_f"))), D("t_w"))
FlangeRatio == FDiv(FDiv(D("b"), F(2)), D("t_f"))

C10_DegenerateFlagged ==
    (last.op = "web_area" /\ IsA("HSection") /\ AllPositive) =>
        last.err # NoError \/ FGt(last.val, F(0))

\* the error kind of the specification for a zero denominator; the code has no
\* exception of this kind
DegenerateGeometry == [type |-> "DegenerateGeometry", msg |-> "none"]

\* the float x is zero
IsZero(x) == IsFin(x) /\ x.n = 0

(***************************************************************************)
(* C11: on a lipped channel with positive dimensions, reading centroid     *)
(* when area is zero, section_modulus_weak when area or centroid.x is      *)
(* zero, or shear_center when moment_of_inertia_weak is zero fails with    *)
(* DegenerateGeometry: it neither returns a value nor raises another       *)
(* error.                                                                  *)
(***************************************************************************)
C11_DegenerateGeometry ==
    (IsA("LippedChannelSection") /\ AllPositive) =>
        LET area == getattr(section, "area")
            x_c == getattr(section, "centroid")[1]
            I_weak == getattr(section, "moment_of_inertia_weak")
        IN  /\ (last.op = "centroid" /\ IsZero(area)) => last.err = DegenerateGeometry
            /\ (last.op = "section_modulus_weak" /\ (IsZero(area) \/ IsZero(x_c))) =>
                   last.err = DegenerateGeometry
            /\ (last.op = "shear_center" /\ (IsZero(I_weak) \/ IsZero(D("b")))) =>
                   last.err = DegenerateGeometry

\* the outcome r of calculate_properties is a record that agrees with the
\* properties of the section self
FieldsAgree(r, self) ==
    /\ r.err = NoError
    /\ r.val.area = read(self, "area").val
    /\ r.val.moment_of_inertia_x = read(self, "moment_of_inertia_strong").val
    /\ r.val.moment_of_inertia_y = read(self, "moment_of_inertia_weak").val
    /\ r.val.torsional_constant = read(self, "torsion_constant").val
    /\ r.val.warping_constant = read(self, "warping_constant").val
    /\ r.val.plastic_moment_x =
           FMul(OnePointFive, read(self, "section_modulus_strong").val)
    /\ r.val.plastic_moment_y =
           FMul(OnePointFive, read(self, "section_modulus_weak").val)

(***************************************************************************)
(* C12: calculate_properties on a lipped channel or an H-section with      *)
(* positive dimensions returns a record with area = area,                  *)
(* moment_of_inertia_x = moment_of_inertia_strong, moment_of_inertia_y =   *)
(* moment_of_inertia_weak, torsional_constant = torsion_constant,          *)
(* warping_constant = warping_constant, plastic_moment_x = 1.5 *           *)
(* section_modulus_strong and plastic_moment_y = 1.5 *                     *)
(* section_modulus_weak, and leaves the dimensions as they were.           *)
(***************************************************************************)
C12_RecordAgrees ==
    [][(last'.op = "calculate_properties" /\ AllPositive) =>
           (FieldsAgree(last', section) /\ section' = section)]_vars

\* the properties a section exposes to the aggregator, as the claim lists them
ExposedProperties ==
    {"area", "moment_of_inertia_strong", "moment_of_inertia_weak", "torsion_constant",
     "section_modulus_strong", "section_modulus_weak", "warping_constant",
     "shear_center"}

\* how many times x occurs in the sequence seq
Count(seq, x) == Cardinality({i \in DOMAIN seq : seq[i] = x})

(***************************************************************************)
(* C13: a call of calculate_properties that returns has read each exposed  *)
(* property that the section has (area, moment_of_inertia_strong,          *)
(* moment_of_inertia_weak, torsion_constant, section_modulus_strong,       *)
(* section_modulus_weak, warping_constant, shear_center) exactly once; no  *)
(* exposed property is read twice.                                         *)
(***************************************************************************)
C13_EachPropertyOnce ==
    Returned("calculate_properties") =>
        \A p \in ExposedProperties \cap Properties(section.cls) :
            Count(last.reads, p) = 1

(***************************************************************************)
(* The width-thickness check near its limits: H-sections whose ratios lie  *)
(* on a limit, a little below it and a little above it (by 1/256 and       *)
(* 1/128, which binary floats hold exactly), constructed and checked       *)
(* against every grade.                                                    *)
(***************************************************************************)
RatioInputs(attr) ==
    CASE attr = "h" -> {PyInt(62), PyInt(74), PyInt(75),
                        PyFloat(18943, 256), PyFloat(18945, 256)}
      [] attr = "b" -> {PyInt(20), PyInt(24), PyInt(26),
                        PyFloat(3071, 128), PyFloat(3073, 128)}
      [] OTHER -> {PyInt(1), PyInt(2)}

RatioArgSeqs ==
    LET n == Len(Params("HSection"))
        all == UNION {RatioInputs(a) : a \in ParamSet("HSection")}
    IN  {args \in [1..n -> all] :
            \A i \in 1..n : args[i] \in RatioInputs(Params("HSection")[i])}

InitRatios ==
    /\ call \in {[cls |-> "HSection", args |-> a] : a \in RatioArgSeqs}
    /\ section = NoSection
    /\ last = Idle

NextRatios ==
    \/ Construct
    \/ Discard
    \/ \E name \in {"web_width_thickness_ratio", "flange_width_thickness_ratio"} :
          Read(name)
    \/ \E steel_grade \in Grades : CheckWidthThicknessRatios(steel_grade)

SpecRatios == InitRatios /\ [][NextRatios]_vars

\* the status of an entry is what its own ratio and limit say
Consistent(entry) == (entry.status = "OK") <=> FLe(entry.ratio, F(entry.limit))

(***************************************************************************)
(* C14: in every record check_width_thickness_ratios returns for a         *)
(* supported grade, the status of the web entry and of the flange entry is *)
(* OK if and only if the ratio reported in that entry (rounded to two      *)
(* decimals) is <= the limit reported in that entry.                       *)
(***************************************************************************)
C14_StatusConsistent ==
    (Returned("check_width_thickness_ratios") /\ last.arg[1] \in SupportedGrades) =>
        Consistent(last.val.web) /\ Consistent(last.val.flange)

=============================================================================
